---- MODULE Spec2Model ----
(***************************************************************************)
(* Model of scripts/check_links.py: discovery of HTML files, extraction    *)
(* and resolution of links, exclusion and capping of the working set, the  *)
(* thread-pool checker, and aggregation of the results by origin file.     *)
(*                                                                         *)
(* Text (URLs, hrefs, regex patterns) is a sequence of tokens: a maximal   *)
(* run of word characters [A-Za-z0-9_] is one token, every other character *)
(* is a token of its own.  "https://site.test/a" is                        *)
(* <<"https", ":", "/", "/", "site", ".", "test", "/", "a">>.              *)
(* Filesystem paths are texts too: "docs/a.html" is                        *)
(* <<"docs", "/", "a", ".", "html">>.                                      *)
(***************************************************************************)
EXTENDS FiniteSets, Integers, Sequences, TLC

\* An optional value (None or v) is <<>> or <<v>>
None == <<>>
Some(v) == <<v>>

----------------------------------------------------------------------------
(* Sequence helpers *)

\* str.find: index of the first occurrence of token t in s, 0 when absent
RECURSIVE FindFrom(_, _, _)
FindFrom(s, t, i) ==
    IF i > Len(s) THEN 0
    ELSE IF s[i] = t THEN i
    ELSE FindFrom(s, t, i + 1)

Find(s, t) == FindFrom(s, t, 1)

\* index of the first token of s that belongs to set T, 0 when absent
RECURSIVE FindAnyFrom(_, _, _)
FindAnyFrom(s, T, i) ==
    IF i > Len(s) THEN 0
    ELSE IF s[i] \in T THEN i
    ELSE FindAnyFrom(s, T, i + 1)

Prefix(s, n) == SubSeq(s, 1, n)
Suffix(s, n) == SubSeq(s, n, Len(s))

\* str.split(sep): the pieces of s between occurrences of sep (never empty list)
RECURSIVE Split(_, _)
Split(s, sep) ==
    LET i == Find(s, sep)
    IN  IF i = 0 THEN <<s>>
        ELSE <<Prefix(s, i - 1)>> \o Split(Suffix(s, i + 1), sep)

\* sep.join(parts)
RECURSIVE JoinWith(_, _)
JoinWith(parts, sep) ==
    IF Len(parts) = 0 THEN <<>>
    ELSE IF Len(parts) = 1 THEN parts[1]
    ELSE parts[1] \o <<sep>> \o JoinWith(Tail(parts), sep)

\* filter(None, parts): the non-empty pieces
RECURSIVE FilterEmpty(_)
FilterEmpty(parts) ==
    IF Len(parts) = 0 THEN <<>>
    ELSE IF Head(parts) = <<>> THEN FilterEmpty(Tail(parts))
    ELSE <<Head(parts)>> \o FilterEmpty(Tail(parts))

\* s contains sub as a contiguous run (regex search of a literal pattern)
Contains(s, sub) ==
    \E i \in 1..(Len(s) - Len(sub) + 1) : SubSeq(s, i, i + Len(sub) - 1) = sub

----------------------------------------------------------------------------
(* urllib.parse as used by extract_links *)

\* word tokens of the model that do not start with an ASCII letter
DigitInitial == {"2019", "1a", "2024", "2099", "01", "02", "05", "13"}
\* word tokens of the model that contain "_" (not a scheme character)
WithUnderscore == {"a_b", "report_2019"}
\* the single-character tokens of the model
Punct == {":", "/", "?", "#", ".", "-", "+", "@", "[", "]", "(", ")"}

\* c in scheme_chars for every character c of the token
IsSchemeChars(tok) ==
    IF tok \in Punct THEN tok \in {"+", "-", "."}
    ELSE tok \notin WithUnderscore

\* url[0].isascii() and url[0].isalpha()
StartsAlpha(tok) == tok \notin Punct /\ tok \notin DigitInitial

\* str.lower on the word tokens of the model
Lower(tok) ==
    CASE tok = "HTTPS" -> "https"
      [] tok = "HTML"  -> "html"
      [] OTHER         -> tok

LowerAll(s) == [i \in 1..Len(s) |-> Lower(s[i])]

\* urlsplit, last step: the query is what follows the first "?" (at q, if any)
SplitQuery(scheme, netloc, s, fragment, q) ==
    [scheme |-> scheme, netloc |-> netloc,
     path |-> IF q = 0 THEN s ELSE Prefix(s, q - 1),
     query |-> IF q = 0 THEN <<>> ELSE Suffix(s, q + 1),
     fragment |-> fragment]

\* urlsplit: the fragment is what follows the first "#" (at h, if any)
SplitFragment(scheme, netloc, s, h) ==
    IF h = 0 THEN SplitQuery(scheme, netloc, s, <<>>, Find(s, "?"))
    ELSE SplitQuery(scheme, netloc, Prefix(s, h - 1), Suffix(s, h + 1),
                    Find(Prefix(s, h - 1), "?"))

\* urlsplit: the netloc ends before the first of "/", "?", "#" (at d, if any)
CutNetloc(scheme, s, d) ==
    IF d = 0 THEN SplitFragment(scheme, s, <<>>, 0)
    ELSE SplitFragment(scheme, Prefix(s, d - 1), Suffix(s, d), Find(Suffix(s, d), "#"))

\* urlsplit: a netloc follows a leading "//"
SplitNetloc(scheme, rest) ==
    IF Len(rest) >= 2 /\ rest[1] = "/" /\ rest[2] = "/"
    THEN CutNetloc(scheme, Suffix(rest, 3),
                   FindAnyFrom(Suffix(rest, 3), {"/", "?", "#"}, 1))
    ELSE SplitFragment(scheme, <<>>, rest, Find(rest, "#"))

\* urlsplit: the text before the first ":" (at i) is a scheme when it starts
\* with a letter and holds scheme characters only; it is lowercased
SplitScheme(url, i) ==
    IF /\ i > 1
       /\ StartsAlpha(url[1])
       /\ \A k \in 1..(i - 1) : IsSchemeChars(url[k])
    THEN SplitNetloc(LowerAll(Prefix(url, i - 1)), Suffix(url, i + 1))
    ELSE SplitNetloc(<<>>, url)

\* urlparse: scheme, netloc, path, query, fragment of a text
urlparse(url) == SplitScheme(url, Find(url, ":"))

\* schemes of urllib.parse.uses_relative and uses_netloc that occur in the model
uses_relative == {<<>>, <<"http">>, <<"https">>, <<"ftp">>}
uses_netloc == {<<>>, <<"http">>, <<"https">>, <<"ftp">>}

\* urlunsplit: "//" netloc before the path
AddNetloc(scheme, netloc, path) ==
    IF \/ netloc # <<>>
       \/ (scheme # <<>> /\ scheme \in uses_netloc /\ Prefix(path, 2) # <<"/", "/">>)
    THEN <<"/", "/">> \o netloc
         \o (IF path # <<>> /\ path[1] # "/" THEN <<"/">> ELSE <<>>) \o path
    ELSE path

AddScheme(scheme, s) == IF scheme # <<>> THEN scheme \o <<":">> \o s ELSE s
AddQuery(s, query) == IF query # <<>> THEN s \o <<"?">> \o query ELSE s
AddFragment(s, fragment) == IF fragment # <<>> THEN s \o <<"#">> \o fragment ELSE s

\* urlunparse
urlunparse(p) ==
    AddFragment(AddQuery(AddScheme(p.scheme, AddNetloc(p.scheme, p.netloc, p.path)),
                         p.query),
                p.fragment)

\* the loop of urljoin that removes "." and ".." segments
RECURSIVE ResolveDots(_, _)
ResolveDots(segments, acc) ==
    IF Len(segments) = 0 THEN acc
    ELSE IF Head(segments) = <<".", ".">>
    THEN ResolveDots(Tail(segments),
                     IF Len(acc) > 0 THEN Prefix(acc, Len(acc) - 1) ELSE acc)
    ELSE IF Head(segments) = <<".">> THEN ResolveDots(Tail(segments), acc)
    ELSE ResolveDots(Tail(segments), Append(acc, Head(segments)))

\* urljoin: the resolved segments, with a trailing empty one after "." or ".."
RemoveDots(segments) ==
    IF segments[Len(segments)] \in {<<".">>, <<".", ".">>}
    THEN Append(ResolveDots(segments, <<>>), <<>>)
    ELSE ResolveDots(segments, <<>>)

\* urljoin: segments[1:-1] = filter(None, segments[1:-1])
Squeeze(segments) ==
    IF Len(segments) <= 2 THEN segments
    ELSE <<segments[1]>> \o FilterEmpty(SubSeq(segments, 2, Len(segments) - 1))
         \o <<segments[Len(segments)]>>

\* urljoin: the base path without its last segment
BaseParts(bsplit) ==
    IF bsplit[Len(bsplit)] # <<>> THEN Prefix(bsplit, Len(bsplit) - 1) ELSE bsplit

NonEmptyPath(path) == IF path = <<>> THEN <<"/">> ELSE path

\* urljoin: the path of the joined URL
MergePath(bpath, upath) ==
    NonEmptyPath(JoinWith(
        RemoveDots(IF upath[1] = "/" THEN Split(upath, "/")
                   ELSE Squeeze(BaseParts(Split(bpath, "/")) \o Split(upath, "/"))),
        "/"))

\* urljoin once both texts are parsed; scheme is the url's, or the base's
JoinParsed(url, b, u, scheme) ==
    IF scheme # b.scheme \/ scheme \notin uses_relative THEN url
    ELSE IF u.netloc # <<>>
    THEN urlunparse([u EXCEPT !.scheme = scheme])
    ELSE IF u.path = <<>>
    THEN urlunparse([scheme |-> scheme, netloc |-> b.netloc, path |-> b.path,
                     query |-> IF u.query = <<>> THEN b.query ELSE u.query,
                     fragment |-> u.fragment])
    ELSE urlunparse([scheme |-> scheme, netloc |-> b.netloc,
                     path |-> MergePath(b.path, u.path),
                     query |-> u.query, fragment |-> u.fragment])

\* the scheme urlparse(url, bscheme) reports: the default is the base's
SchemeOr(u, b) == IF u.scheme = <<>> THEN b.scheme ELSE u.scheme

\* urllib.parse.urljoin(base, url)
urljoin(base, url) ==
    IF base = <<>> THEN url
    ELSE IF url = <<>> THEN base
    ELSE JoinParsed(url, urlparse(base), urlparse(url),
                    SchemeOr(urlparse(url), urlparse(base)))

----------------------------------------------------------------------------
(* os.path as used by find_html_files and extract_links (POSIX) *)

\* os.path.join(a, b)
path_join(a, b) ==
    IF b # <<>> /\ b[1] = "/" THEN b
    ELSE IF a = <<>> \/ a[Len(a)] = "/" THEN a \o b
    ELSE a \o <<"/">> \o b

\* the loop of os.path.normpath over the components of a path
RECURSIVE NormComps(_, _, _)
NormComps(comps, initial_slash, acc) ==
    IF Len(comps) = 0 THEN acc
    ELSE IF Head(comps) = <<>> \/ Head(comps) = <<".">>
    THEN NormComps(Tail(comps), initial_slash, acc)
    ELSE IF \/ Head(comps) # <<".", ".">>
            \/ (~initial_slash /\ Len(acc) = 0)
            \/ (Len(acc) > 0 /\ acc[Len(acc)] = <<".", ".">>)
    THEN NormComps(Tail(comps), initial_slash, Append(acc, Head(comps)))
    ELSE NormComps(Tail(comps), initial_slash,
                   IF Len(acc) > 0 THEN Prefix(acc, Len(acc) - 1) ELSE acc)

\* `path or "."`
DotIfEmpty(path) == IF path = <<>> THEN <<".">> ELSE path

\* os.path.normpath(path)
normpath(path) ==
    IF path = <<>> THEN <<".">>
    ELSE DotIfEmpty((IF path[1] = "/" THEN <<"/">> ELSE <<>>)
                    \o JoinWith(NormComps(Split(path, "/"), path[1] = "/", <<>>), "/"))

\* os.path.abspath(path) in a process whose working directory is cwd
abspath(path, cwd) == normpath(path_join(cwd, path))

\* length of the common prefix of two component lists
RECURSIVE CommonLen(_, _)
CommonLen(a, b) ==
    IF Len(a) = 0 \/ Len(b) = 0 \/ Head(a) # Head(b) THEN 0
    ELSE 1 + CommonLen(Tail(a), Tail(b))

\* relpath: ".." for every component of start_list after the common prefix of
\* length i, then the components of path_list after it
RelJoin(start_list, path_list, i) ==
    DotIfEmpty(JoinWith([k \in 1..(Len(start_list) - i) |-> <<".", ".">>]
                        \o Suffix(path_list, i + 1), "/"))

RelList(start_list, path_list) ==
    RelJoin(start_list, path_list, CommonLen(start_list, path_list))

\* os.path.relpath(path) with the default start, the working directory cwd
relpath(path, cwd) ==
    RelList(FilterEmpty(Split(abspath(<<".">>, cwd), "/")),
            FilterEmpty(Split(abspath(path, cwd), "/")))

\* file.lower().endswith(".html")
IsHtmlName(name) ==
    /\ Len(name) >= 2
    /\ name[Len(name) - 1] = "."
    /\ Lower(name[Len(name)]) = "html"

----------------------------------------------------------------------------
(* Inputs: the texts, the scanned trees and the command lines of the model *)

EX2019 == <<"https", ":", "/", "/", "example", ".", "com", "/", "2019", "/", "page">>
OLDX   == <<"http", ":", "/", "/", "old", ".", "test", "/", "x">>
ABOUT  == <<"about", ".", "html">>
MAILTO == <<"mailto", ":", "a", "@", "b">>
RELATIVE == <<"/", "relative">>
BASE   == <<"https", ":", "/", "/", "site", ".", "test">>
\* a year inside a longer word, and a netloc urlsplit rejects ("Invalid IPv6 URL")
U2019  == <<"https", ":", "/", "/", "example", ".", "com", "/", "report_2019", ".", "pdf">>
BADV6  == <<"http", ":", "/", "/", "[", "bad">>

\* where the scanned tree lives
SiteRoot == <<"/", "srv", "/", "site">>

\* a scanned tree: its files, each with the directory it is in (relative to
\* the root of the tree), its name, the hrefs of its anchors, and whether
\* open() and read() succeed on it
Site1 == {[dir |-> <<"docs">>, name |-> <<"index", ".", "html">>,
           links |-> {ABOUT, EX2019, MAILTO}, readable |-> TRUE],
          [dir |-> <<>>, name |-> <<"a", ".", "HTML">>,
           links |-> {EX2019, OLDX}, readable |-> TRUE],
          [dir |-> <<>>, name |-> <<"notes", ".", "txt">>,
           links |-> {OLDX}, readable |-> TRUE]}
Site2 == {[dir |-> <<>>, name |-> <<"index", ".", "html">>,
           links |-> {EX2019, RELATIVE}, readable |-> TRUE]}
Site3 == {[dir |-> <<>>, name |-> <<"b", ".", "html">>,
           links |-> {U2019, BADV6}, readable |-> TRUE],
          [dir |-> <<>>, name |-> <<"c", ".", "html">>,
           links |-> {OLDX}, readable |-> FALSE],
          [dir |-> <<>>, name |-> <<"d", ".", "html">>,
           links |-> {EX2019}, readable |-> TRUE]}
Sites == {Site1, Site2, Site3}

\* (working directory, directory argument) pairs that name the tree: from its
\* parent directory, and from inside it; and a pair that names no directory
FromParent == [cwd |-> <<"/", "srv">>, directory |-> <<"site">>]
FromInside == [cwd |-> SiteRoot, directory |-> <<".">>]
Missing    == [cwd |-> <<"/", "srv">>, directory |-> <<"missing">>]
Invocations == {FromParent, FromInside, Missing}

\* --exclude: absent, the empty pattern, a literal word, or a pattern that
\* re.compile rejects
BADRE == <<"(">>
Excludes == {None, Some(<<>>), Some(<<"old">>), Some(BADRE)}

\* --output: absent, a file in the working directory, or a file in a
\* directory that does not exist
OUT    == <<"report">>
BADOUT == <<"nodir", "/", "report">>
Outputs == {None, Some(OUT), Some(BADOUT)}
\* --format
Formats == {"text", "json", "csv"}

\* --max ranges over 0..MaxCap (or is absent)
MaxCap == 2
\* max_workers of check_links ranges over 1..MaxWorkers (main leaves it at its
\* default of 10, a limit the few links of the model never reach)
MaxWorkers == 2
\* the status codes a HEAD request can answer with in the model, or it raises
StatusCodes == {200, 400}
Outcomes == {[kind |-> "response", status_code |-> c] : c \in StatusCodes}
            \cup {[kind |-> "exception"]}
\* what datetime.now().year can read
Years == {2024, 2025}

----------------------------------------------------------------------------
(* State *)

VARIABLES
    pc,              \* position of main
    args,            \* the parsed command line, cwd and max_workers
    fs,              \* the scanned tree
    html_files,      \* find_html_files' list
    file_idx,        \* extract_links: index of the file being processed
    cur_links,       \* extract_links: parser.links not yet iterated, None before open
    absolute_links, relative_links, link_origins,
    to_submit,       \* check_links: links not yet submitted to the executor
    work_queue,      \* executor: submitted work items no worker has taken
    num_threads,     \* executor: worker threads spawned
    running,         \* executor: URLs whose check_link call is in progress
    futures,         \* finished futures not yet yielded by as_completed
    results,         \* check_links' dict, in insertion order
    file_summary,    \* group_links_by_file's dict, in insertion order
    now_year,        \* what group_links_by_file read from datetime.now().year, None before
    output_file,     \* what save_results wrote to args.output, None before
    idle_semaphore,  \* executor: _idle_semaphore
    probes,          \* history: URL -> the outcomes of the check_link calls made for it
    tool,            \* the script that runs
    opts,            \* batch utilities: the options of the command line
    inputs,          \* batch utilities: the list the arguments expand to
    idx,             \* batch utilities: index of the input being handled
    files, dirs,     \* batch utilities: the files and the directories that exist
    stats,           \* batch utilities: the stats dict
    start,           \* history: the files and directories before the run
    log,             \* history: what each iteration found and wrote
    nodes            \* rename.py: what lies at each path of files, the data of
                     \* a regular file or the target of a symbolic link

vars == <<pc, args, fs, html_files, file_idx, cur_links, absolute_links,
          relative_links, link_origins, to_submit, work_queue, num_threads,
          running, futures, results, file_summary, now_year, output_file,
          idle_semaphore, probes, tool, opts, inputs, idx, files, dirs,
          stats, start, log, nodes>>

link_vars == <<pc, args, fs, html_files, file_idx, cur_links, absolute_links,
               relative_links, link_origins, to_submit, work_queue, num_threads,
               running, futures, results, file_summary, now_year, output_file,
               idle_semaphore, probes>>
tool_vars == <<tool, opts, inputs, idx, files, dirs, stats, start, log, nodes>>

extract_vars == <<html_files, file_idx, cur_links, absolute_links,
                  relative_links, link_origins>>
pool_vars == <<to_submit, work_queue, num_threads, running, futures, results,
               idle_semaphore, probes>>

\* dict helpers: a dict in insertion order is a sequence of entries with a key
Keys(d) == {d[i].key : i \in 1..Len(d)}
IndexOf(d, k) == CHOOSE i \in 1..Len(d) : d[i].key = k
Get(d, k) == d[IndexOf(d, k)]
\* d[k] = entry: replaces in place when k is present, else appends
Put(d, entry) ==
    IF entry.key \in Keys(d)
    THEN [d EXCEPT ![IndexOf(d, entry.key)] = entry]
    ELSE Append(d, entry)

\* all orders in which a finite set can be listed
RECURSIVE Orders(_)
Orders(S) ==
    IF S = {} THEN {<<>>}
    ELSE UNION {{<<x>> \o o : o \in Orders(S \ {x})} : x \in S}

\* the command lines of the model (with the working directory and the
\* max_workers main's call of check_links runs with); --exclude and --max are
\* varied, one at a time, for the runs started from the parent directory,
\* --output and
\* --format for the single-worker runs without base URL started from inside
\* the tree
CommandLines ==
    {a \in [cwd : {i.cwd : i \in Invocations},
            directory : {i.directory : i \in Invocations},
            base_url : {None, Some(BASE)},
            exclude : Excludes,
            max : {None} \cup {Some(n) : n \in 0..MaxCap},
            dry_run : BOOLEAN,
            output : Outputs,
            format : Formats,
            max_workers : 1..MaxWorkers] :
       /\ [cwd |-> a.cwd, directory |-> a.directory] \in Invocations
       /\ a.directory # FromParent.directory => (a.exclude = None /\ a.max = None)
       /\ a.exclude # None => a.max = None
       /\ a.output = None => a.format = "text"
       /\ a.output # None => /\ a.directory = FromInside.directory
                              /\ a.max_workers = 1
                              /\ a.base_url = None
       /\ a.output = Some(BADOUT) => a.format = "text"}

\* the runs of the model: the tree with the files that raise is scanned
\* without --exclude, --max and --output
Runs ==
    {r \in [fs : Sites, args : CommandLines] :
       r.fs = Site3 =>
         (r.args.exclude = None /\ r.args.max = None /\ r.args.output = None)}

Init ==
    /\ pc = "discover"
    /\ \E r \in Runs : fs = r.fs /\ args = r.args
    /\ html_files = <<>>
    /\ file_idx = 0
    /\ cur_links = None
    /\ absolute_links = {}
    /\ relative_links = {}
    /\ link_origins = <<>>
    /\ to_submit = {}
    /\ work_queue = <<>>
    /\ num_threads = 0
    /\ running = {}
    /\ futures = {}
    /\ results = <<>>
    /\ file_summary = <<>>
    /\ now_year = None
    /\ output_file = None
    /\ idle_semaphore = 0
    /\ probes = <<>>
    /\ tool = "check_links"
    /\ opts = None
    /\ inputs = <<>>
    /\ idx = 0
    /\ files = {}
    /\ dirs = {}
    /\ stats = <<>>
    /\ start = None
    /\ log = <<>>
    /\ nodes = [p \in {} |-> None]

----------------------------------------------------------------------------
(* find_html_files *)

\* os.path.join(root, file) for a file of the tree, as os.walk(directory) reports it
FilePath(f, directory) ==
    path_join(IF f.dir = <<>> THEN directory ELSE path_join(directory, f.dir), f.name)

\* the paths find_html_files collects (os.walk of a missing directory yields nothing)
find_html_files(directory, cwd, tree) ==
    IF abspath(directory, cwd) # SiteRoot THEN {}
    ELSE {FilePath(f, directory) : f \in {g \in tree : IsHtmlName(g.name)}}

Discover ==
    /\ pc = "discover"
    /\ html_files' \in Orders(find_html_files(args.directory, args.cwd, fs))
    /\ file_idx' = 1
    /\ pc' = "extract"
    /\ UNCHANGED <<args, fs, tool_vars, cur_links, absolute_links, relative_links,
                   link_origins, file_summary, now_year, output_file>>
    /\ UNCHANGED pool_vars

----------------------------------------------------------------------------
(* extract_links *)

\* Python truthiness of an optional text and of an optional number
TruthyText(x) == x # None /\ x[1] # <<>>
TruthyInt(x) == x # None /\ x[1] # 0

\* the file of the tree at a path, and its parser.links
FileAt(filepath) == CHOOSE f \in fs : FilePath(f, args.directory) = filepath
LinksOf(filepath) == FileAt(filepath).links

\* urlsplit raises ValueError("Invalid IPv6 URL") for a netloc with one of
\* "[" and "]" and not the other
InvalidIPv6(link) ==
    (Find(urlparse(link).netloc, "[") = 0) # (Find(urlparse(link).netloc, "]") = 0)

\* rel_base of a file: "" without a base URL
RelBase(filepath, base_url, cwd) ==
    IF TruthyText(base_url)
    THEN urljoin(base_url[1] \o <<"/">>, relpath(filepath, cwd))
    ELSE <<>>

\* a loop body that resolves every link once a base URL is given
ClassifyAnyScheme(link, base_url) ==
    IF TruthyText(base_url) THEN "resolve"
    ELSE IF urlparse(link).scheme \in {<<"http">>, <<"https">>} THEN "absolute"
    ELSE "relative"

\* the branch of the loop body a link takes: "resolve", "absolute" or "relative"
Classify(link, base_url) ==
    IF TruthyText(base_url) /\ urlparse(link).scheme = <<>> THEN "resolve"
    ELSE IF urlparse(link).scheme \in {<<"http">>, <<"https">>} THEN "absolute"
    ELSE "relative"

\* the URL the loop body adds to absolute_links for a link that is not "relative"
Resolved(link, filepath, base_url, cwd) ==
    IF Classify(link, base_url) = "resolve"
    THEN urljoin(RelBase(filepath, base_url, cwd), link)
    ELSE link

\* the file is opened, read and parsed; an exception of open() or read() is
\* caught by the `except Exception` of the loop body, which goes on to the
\* next file
ExtractOpen ==
    /\ pc = "extract"
    /\ file_idx <= Len(html_files)
    /\ cur_links = None
    /\ LET links == LinksOf(html_files[file_idx])
       IN  IF links = {} \/ ~FileAt(html_files[file_idx]).readable
           THEN file_idx' = file_idx + 1 /\ cur_links' = None
           ELSE file_idx' = file_idx /\ cur_links' = Some(links)
    /\ UNCHANGED <<pc, args, fs, tool_vars, html_files, absolute_links, relative_links,
                   link_origins, file_summary, now_year, output_file>>
    /\ UNCHANGED pool_vars

\* a loop body that adds a URL to the absolute set without recording its origin
LoopBodyForgetsOrigin(link, filepath, kind, url) ==
    IF kind = "relative"
    THEN /\ relative_links' = relative_links \cup {link}
         /\ UNCHANGED <<absolute_links, link_origins>>
    ELSE /\ absolute_links' = absolute_links \cup {url}
         /\ UNCHANGED <<relative_links, link_origins>>

\* a loop body that keeps the first file seen as the origin of a URL
LoopBodyFirstSeen(link, filepath, kind, url) ==
    IF kind = "relative"
    THEN /\ relative_links' = relative_links \cup {link}
         /\ UNCHANGED <<absolute_links, link_origins>>
    ELSE /\ absolute_links' = absolute_links \cup {url}
         /\ link_origins' = IF url \in Keys(link_origins) THEN link_origins
                             ELSE Append(link_origins, [key |-> url, file |-> filepath])
         /\ UNCHANGED relative_links

\* the body of `for link in parser.links` for a link of the given kind, url
\* being what the link resolves to
LoopBody(link, filepath, kind, url) ==
    IF kind = "relative"
    THEN /\ relative_links' = relative_links \cup {link}
         /\ UNCHANGED <<absolute_links, link_origins>>
    ELSE /\ absolute_links' = absolute_links \cup {url}
         /\ link_origins' = Put(link_origins, [key |-> url, file |-> filepath])
         /\ UNCHANGED relative_links

\* one iteration of `for link in parser.links`
ExtractLink ==
    /\ pc = "extract"
    /\ cur_links # None
    /\ \E link \in cur_links[1] :
         /\ ~InvalidIPv6(link)
         /\ LoopBody(link, html_files[file_idx], Classify(link, args.base_url),
                     Resolved(link, html_files[file_idx], args.base_url, args.cwd))
         /\ IF cur_links[1] = {link}
            THEN file_idx' = file_idx + 1 /\ cur_links' = None
            ELSE file_idx' = file_idx /\ cur_links' = Some(cur_links[1] \ {link})
    /\ UNCHANGED <<pc, args, fs, tool_vars, html_files, file_summary, now_year, output_file>>
    /\ UNCHANGED pool_vars

\* an iteration in which urlparse(link) raises: the `except Exception` around
\* the whole body of the file ends the loop over its links, keeping what the
\* earlier iterations added
ExtractRaise ==
    /\ pc = "extract"
    /\ cur_links # None
    /\ \E link \in cur_links[1] : InvalidIPv6(link)
    /\ file_idx' = file_idx + 1
    /\ cur_links' = None
    /\ UNCHANGED <<pc, args, fs, tool_vars, html_files, absolute_links, relative_links,
                   link_origins, file_summary, now_year, output_file>>
    /\ UNCHANGED pool_vars

\* extract_links returns
ExtractReturn ==
    /\ pc = "extract"
    /\ file_idx > Len(html_files)
    /\ pc' = "exclude"
    /\ UNCHANGED <<args, fs, tool_vars, file_summary, now_year, output_file>>
    /\ UNCHANGED extract_vars
    /\ UNCHANGED pool_vars

----------------------------------------------------------------------------
(* main: --exclude and --max *)

\* pattern.search(url) for a literal pattern
Search(pattern, url) == Contains(url, pattern)

\* the links main keeps for an --exclude argument
Excluded(links, exclude) ==
    IF TruthyText(exclude)
    THEN {url \in links : ~Search(exclude[1], url)}
    ELSE links

\* re.compile raises re.error for a pattern with unbalanced parentheses
CompileRaises(pattern) ==
    Cardinality({i \in 1..Len(pattern) : pattern[i] = "("})
      # Cardinality({i \in 1..Len(pattern) : pattern[i] = ")"})

\* re.compile raises in main: nothing catches it, the process ends with a
\* traceback
ExcludeRaise ==
    /\ pc = "exclude"
    /\ TruthyText(args.exclude)
    /\ CompileRaises(args.exclude[1])
    /\ pc' = "crashed"
    /\ UNCHANGED <<args, fs, tool_vars, file_summary, now_year, output_file>>
    /\ UNCHANGED extract_vars
    /\ UNCHANGED pool_vars

Exclude ==
    /\ pc = "exclude"
    /\ TruthyText(args.exclude) => ~CompileRaises(args.exclude[1])
    /\ absolute_links' = Excluded(absolute_links, args.exclude)
    /\ pc' = "cap"
    /\ UNCHANGED <<args, fs, tool_vars, html_files, file_idx, cur_links, relative_links,
                   link_origins, file_summary, now_year, output_file>>
    /\ UNCHANGED pool_vars

Min(a, b) == IF a < b THEN a ELSE b

\* the sets set(list(links)[:max]) can be: the list order of a set is arbitrary
Capped(links, max) ==
    IF TruthyInt(max)
    THEN {S \in SUBSET links : Cardinality(S) = Min(max[1], Cardinality(links))}
    ELSE {links}

Cap ==
    /\ pc = "cap"
    /\ absolute_links' \in Capped(absolute_links, args.max)
    /\ pc' = "check"
    /\ UNCHANGED <<args, fs, tool_vars, html_files, file_idx, cur_links, relative_links,
                   link_origins, file_summary, now_year, output_file>>
    /\ UNCHANGED pool_vars

----------------------------------------------------------------------------
(* check_link, check_links *)

\* a range check that takes 400 for a success
check_link_inclusive(url, outcome) ==
    IF outcome.kind = "exception" THEN <<url, None, FALSE>>
    ELSE <<url, Some(outcome.status_code),
           200 <= outcome.status_code /\ outcome.status_code <= 400>>

\* check_link's return value when the HEAD request has the given outcome
check_link(url, outcome) ==
    IF outcome.kind = "exception" THEN <<url, None, FALSE>>
    ELSE <<url, Some(outcome.status_code),
           200 <= outcome.status_code /\ outcome.status_code < 400>>

\* a main that checks the links in spite of --dry-run
DryRunIgnored ==
    /\ pc = "check"
    /\ args.dry_run
    /\ to_submit' = absolute_links
    /\ results' = <<>>
    /\ pc' = "pool"
    /\ UNCHANGED <<args, fs, tool_vars, file_summary, now_year, output_file, work_queue, num_threads, running,
                   futures, idle_semaphore, probes>>
    /\ UNCHANGED extract_vars

\* main skips the checking stage
DryRun ==
    /\ pc = "check"
    /\ args.dry_run
    /\ results' = <<>>
    /\ pc' = "group"
    /\ UNCHANGED <<args, fs, tool_vars, file_summary, now_year, output_file, to_submit, work_queue, num_threads,
                   running, futures, idle_semaphore, probes>>
    /\ UNCHANGED extract_vars

\* main calls check_links: the executor is created
CheckLinks ==
    /\ pc = "check"
    /\ ~args.dry_run
    /\ to_submit' = absolute_links
    /\ results' = <<>>
    /\ pc' = "pool"
    /\ UNCHANGED <<args, fs, tool_vars, file_summary, now_year, output_file, work_queue, num_threads, running,
                   futures, idle_semaphore, probes>>
    /\ UNCHANGED extract_vars

\* a pool that never starts a thread
AdjustThreadCountNever(n, max_workers) == n

\* a pool that starts a thread for every work item
AdjustThreadCountUnbounded(n, max_workers) == n + 1

\* ThreadPoolExecutor(max_workers=max_workers): a submit that finds no idle
\* worker spawns a thread only below max_workers
AdjustThreadCount(n, max_workers) ==
    IF n < max_workers THEN n + 1 ELSE n

\* executor.submit(check_link, url, ...): queue the work item, then reuse an
\* idle worker or adjust the thread count
Submit ==
    /\ pc = "pool"
    /\ \E url \in to_submit :
         /\ to_submit' = to_submit \ {url}
         /\ work_queue' = Append(work_queue, url)
    /\ IF idle_semaphore > 0
       THEN idle_semaphore' = idle_semaphore - 1 /\ UNCHANGED num_threads
       ELSE /\ UNCHANGED idle_semaphore
            /\ num_threads' = AdjustThreadCount(num_threads, args.max_workers)
    /\ UNCHANGED <<pc, args, fs, tool_vars, file_summary, now_year, output_file, running, futures, results, probes>>
    /\ UNCHANGED extract_vars

\* a worker thread that calls check_link for the next work item and leaves
\* the item in the queue
ProbeStartKeepsItem ==
    /\ pc = "pool"
    /\ work_queue # <<>>
    /\ Cardinality(running) < num_threads
    /\ Head(work_queue) \notin running
    /\ running' = running \cup {Head(work_queue)}
    /\ probes' = [u \in DOMAIN probes \cup {Head(work_queue)} |->
                    (IF u \in DOMAIN probes THEN probes[u] ELSE <<>>)
                    \o (IF u = Head(work_queue) THEN <<[kind |-> "pending"]>> ELSE <<>>)]
    /\ UNCHANGED <<pc, args, fs, tool_vars, file_summary, now_year, output_file, to_submit, num_threads, futures,
                   results, idle_semaphore, work_queue>>
    /\ UNCHANGED extract_vars

\* a worker thread that runs no work item takes the next one and calls check_link
ProbeStart ==
    /\ pc = "pool"
    /\ work_queue # <<>>
    /\ Cardinality(running) < num_threads
    /\ running' = running \cup {Head(work_queue)}
    /\ probes' = [u \in DOMAIN probes \cup {Head(work_queue)} |->
                    (IF u \in DOMAIN probes THEN probes[u] ELSE <<>>)
                    \o (IF u = Head(work_queue) THEN <<[kind |-> "pending"]>> ELSE <<>>)]
    /\ work_queue' = Tail(work_queue)
    /\ UNCHANGED <<pc, args, fs, tool_vars, file_summary, now_year, output_file, to_submit, num_threads, futures,
                   results, idle_semaphore>>
    /\ UNCHANGED extract_vars

\* a checker that retries a request that raised, once
ProbeReturnRetry ==
    /\ pc = "pool"
    /\ \E url \in running, outcome \in Outcomes :
         /\ running' = running \ {url}
         /\ probes' = [probes EXCEPT ![url][Len(probes[url])] = outcome]
         /\ IF outcome.kind = "exception" /\ Len(probes[url]) < 2
            THEN work_queue' = Append(work_queue, url) /\ UNCHANGED futures
            ELSE futures' = futures \cup {check_link(url, outcome)}
                 /\ UNCHANGED work_queue
    /\ idle_semaphore' = idle_semaphore + 1
    /\ UNCHANGED <<pc, args, fs, tool_vars, file_summary, now_year, output_file, to_submit, num_threads, results>>
    /\ UNCHANGED extract_vars

\* a checker in which a request that raises cancels the work items still queued
ProbeReturnCancel ==
    /\ pc = "pool"
    /\ \E url \in running, outcome \in Outcomes :
         /\ running' = running \ {url}
         /\ futures' = futures \cup {check_link(url, outcome)}
         /\ probes' = [probes EXCEPT ![url][Len(probes[url])] = outcome]
         /\ IF outcome.kind = "exception"
            THEN work_queue' = <<>> /\ to_submit' = {}
            ELSE UNCHANGED <<work_queue, to_submit>>
    /\ idle_semaphore' = idle_semaphore + 1
    /\ UNCHANGED <<pc, args, fs, tool_vars, file_summary, now_year, output_file, num_threads, results>>
    /\ UNCHANGED extract_vars

\* a check_link call returns: its future is done and the worker is idle again
ProbeReturn ==
    /\ pc = "pool"
    /\ \E url \in running, outcome \in Outcomes :
         /\ running' = running \ {url}
         /\ futures' = futures \cup {check_link(url, outcome)}
         /\ probes' = [probes EXCEPT ![url][Len(probes[url])] = outcome]
    /\ idle_semaphore' = idle_semaphore + 1
    /\ UNCHANGED <<pc, args, fs, tool_vars, file_summary, now_year, output_file, to_submit, work_queue,
                   num_threads, results>>
    /\ UNCHANGED extract_vars

\* one iteration of `for future in as_completed(future_to_url)`
Collect ==
    /\ pc = "pool"
    /\ to_submit = {}
    /\ \E r \in futures :
         /\ futures' = futures \ {r}
         /\ results' = Put(results, [key |-> r[1], ok |-> r[3], status_code |-> r[2]])
    /\ UNCHANGED <<pc, args, fs, tool_vars, file_summary, now_year, output_file, to_submit, work_queue,
                   num_threads, running, idle_semaphore, probes>>
    /\ UNCHANGED extract_vars

\* a check_links that returns once the futures finished so far are collected,
\* without waiting for the calls still queued or in progress
CheckReturnEarly ==
    /\ pc = "pool"
    /\ to_submit = {} /\ futures = {}
    /\ pc' = "group"
    /\ UNCHANGED <<args, fs, tool_vars, file_summary, now_year, output_file>>
    /\ UNCHANGED extract_vars
    /\ UNCHANGED pool_vars

\* every future has been yielded: the executor shuts down, check_links returns
CheckReturn ==
    /\ pc = "pool"
    /\ to_submit = {} /\ work_queue = <<>> /\ running = {} /\ futures = {}
    /\ pc' = "group"
    /\ UNCHANGED <<args, fs, tool_vars, file_summary, now_year, output_file>>
    /\ UNCHANGED extract_vars
    /\ UNCHANGED pool_vars

----------------------------------------------------------------------------
(* group_links_by_file *)

years_back_default == 5
UNKNOWN == <<"UNKNOWN">>

\* the decimal digits of the all-digit word tokens of the model, <<>> for others
DigitsOf(tok) ==
    CASE tok = "2019" -> <<2, 0, 1, 9>>
      [] tok = "2024" -> <<2, 0, 2, 4>>
      [] tok = "2099" -> <<2, 0, 9, 9>>
      [] tok = "01"   -> <<0, 1>>
      [] tok = "02"   -> <<0, 2>>
      [] tok = "05"   -> <<0, 5>>
      [] tok = "13"   -> <<1, 3>>
      [] OTHER        -> <<>>

\* re.findall(r"\b(20\d{2})\b", url): the word tokens that are 20dd, as numbers
found_years(url) ==
    {1000 * d[1] + 100 * d[2] + 10 * d[3] + d[4] :
       d \in {DigitsOf(url[i]) : i \in {k \in 1..Len(url) :
                  LET e == DigitsOf(url[k])
                  IN  Len(e) = 4 /\ e[1] = 2 /\ e[2] = 0}}}

\* a window that leaves out its lower bound
IsOldAboveLowerBound(url, current_year, years_back) ==
    \E y \in found_years(url) : current_year - years_back < y /\ y < current_year

\* any(y in old_years for y in found_years)
IsOld(url, current_year, years_back) ==
    \E y \in found_years(url) : current_year - years_back <= y /\ y < current_year

\* link_origins.get(url, "UNKNOWN")
OriginOf(origins, url) ==
    IF url \in Keys(origins) THEN Get(origins, url).file ELSE UNKNOWN

\* grouped[source_file], created empty on first access
Bucket(grouped, file) ==
    IF file \in Keys(grouped) THEN Get(grouped, file)
    ELSE [key |-> file, ok |-> <<>>, fail |-> <<>>, old |-> <<>>]

\* grouped[source_file][status].append(url)
TagStatus(bucket, info) ==
    IF info.ok THEN [bucket EXCEPT !.ok = Append(@, info.key)]
    ELSE [bucket EXCEPT !.fail = Append(@, info.key)]

\* grouped[source_file]["old"].append(url) when the URL holds an old year
TagOld(bucket, url, current_year, years_back) ==
    IF IsOld(url, current_year, years_back)
    THEN [bucket EXCEPT !.old = Append(@, url)]
    ELSE bucket

\* an aggregation that files a stale link under old instead of ok or fail
GroupOneExclusive(grouped, info, origins, current_year, years_back) ==
    Put(grouped,
        IF IsOld(info.key, current_year, years_back)
        THEN TagOld(Bucket(grouped, OriginOf(origins, info.key)), info.key,
                    current_year, years_back)
        ELSE TagStatus(Bucket(grouped, OriginOf(origins, info.key)), info))

\* an aggregation that looks for old years in reachable links only
GroupOneReachableOld(grouped, info, origins, current_year, years_back) ==
    Put(grouped,
        IF info.ok
        THEN TagOld(TagStatus(Bucket(grouped, OriginOf(origins, info.key)), info),
                    info.key, current_year, years_back)
        ELSE TagStatus(Bucket(grouped, OriginOf(origins, info.key)), info))

\* the body of `for url, info in results.items()`
GroupOne(grouped, info, origins, current_year, years_back) ==
    Put(grouped,
        TagOld(TagStatus(Bucket(grouped, OriginOf(origins, info.key)), info),
               info.key, current_year, years_back))

RECURSIVE GroupFrom(_, _, _, _, _)
GroupFrom(grouped, res, origins, current_year, years_back) ==
    IF Len(res) = 0 THEN grouped
    ELSE GroupFrom(GroupOne(grouped, Head(res), origins, current_year, years_back),
                   Tail(res), origins, current_year, years_back)

group_links_by_file(res, origins, current_year, years_back) ==
    GroupFrom(<<>>, res, origins, current_year, years_back)

Group ==
    /\ pc = "group"
    /\ \E year \in Years :
         /\ now_year' = Some(year)
         /\ file_summary' = group_links_by_file(results, link_origins, year,
                                                years_back_default)
    /\ pc' = "save"
    /\ UNCHANGED <<args, fs, tool_vars, output_file>>
    /\ UNCHANGED extract_vars
    /\ UNCHANGED pool_vars

----------------------------------------------------------------------------
(* save_results *)

\* the keys of a file's categories, in the order the dict was built
Categories == <<"ok", "fail", "old">>
\* categories[status]
Category(bucket, status) ==
    CASE status = "ok"   -> bucket.ok
      [] status = "fail" -> bucket.fail
      [] status = "old"  -> bucket.old

RECURSIVE Flatten(_)
Flatten(seqs) == IF seqs = <<>> THEN <<>> ELSE Head(seqs) \o Flatten(Tail(seqs))

\* json.dump(file_summary): an object is the list of its (name, value) members
json_dump(summary) ==
    [i \in 1..Len(summary) |->
       <<summary[i].key,
         [k \in 1..Len(Categories) |->
            <<Categories[k], Category(summary[i], Categories[k])>>]>>]

\* a writer that leaves out the row of a link under old
csv_rows_status_only(summary) ==
    <<<< <<"source_file">>, "status", <<"url">> >>>>
    \o Flatten([i \in 1..Len(summary) |->
          Flatten([k \in 1..2 |->
            [j \in 1..Len(Category(summary[i], Categories[k])) |->
               <<summary[i].key, Categories[k],
                 Category(summary[i], Categories[k])[j]>>]])])

\* the rows csv.writer writes: the header, then one row per file, status, url
csv_rows(summary) ==
    <<<< <<"source_file">>, "status", <<"url">> >>>>
    \o Flatten([i \in 1..Len(summary) |->
          Flatten([k \in 1..Len(Categories) |->
            [j \in 1..Len(Category(summary[i], Categories[k])) |->
               <<summary[i].key, Categories[k],
                 Category(summary[i], Categories[k])[j]>>]])])

\* status.upper() and the width of f"[{tag}] "
Upper(status) ==
    CASE status = "ok" -> "OK" [] status = "fail" -> "FAIL" [] status = "old" -> "OLD"
TagWidth(status) ==
    CASE status = "ok" -> 5 [] status = "fail" -> 7 [] status = "old" -> 6
\* f"[{tag}] ".rjust(8) + url, as tokens
TextLine(status, url) ==
    [n \in 1..(8 - TagWidth(status)) |-> " "]
    \o <<"[", Upper(status), "]", " ">> \o url

\* the lines of the plain-text format: files are separated by an empty line
text_lines(summary) ==
    Flatten([i \in 1..Len(summary) |->
          (IF i > 1 THEN << <<>> >> ELSE <<>>)
          \o <<summary[i].key>>
          \o Flatten([k \in 1..Len(Categories) |->
                [j \in 1..Len(Category(summary[i], Categories[k])) |->
                   TextLine(Categories[k], Category(summary[i], Categories[k])[j])]])])

\* what save_results writes for a format
save_results(summary, format) ==
    CASE format = "json" -> json_dump(summary)
      [] format = "csv"  -> csv_rows(summary)
      [] OTHER           -> text_lines(summary)

\* os.path.dirname of an absolute path
Dirname(path) ==
    LET last == CHOOSE i \in 1..Len(path) :
                  path[i] = "/" /\ \A k \in (i + 1)..Len(path) : path[k] # "/"
    IN  IF last = 1 THEN <<"/">> ELSE Prefix(path, last - 1)

\* the directories that exist: those of the tree and those above it
Directories(tree) ==
    {<<"/">>, Dirname(SiteRoot), SiteRoot}
    \cup {path_join(SiteRoot, f.dir) : f \in {g \in tree : g.dir # <<>>}}

\* open(output_file, "w") succeeds when the directory of the file exists
CanOpen(path, cwd, tree) == Dirname(abspath(path, cwd)) \in Directories(tree)

\* main has no --output (or an empty one): nothing is saved
SaveSkip ==
    /\ pc = "save"
    /\ ~TruthyText(args.output)
    /\ pc' = "done"
    /\ UNCHANGED <<args, fs, tool_vars, file_summary, now_year, output_file>>
    /\ UNCHANGED extract_vars
    /\ UNCHANGED pool_vars

\* open() raises in save_results: nothing catches it, the process ends with a
\* traceback
SaveRaise ==
    /\ pc = "save"
    /\ TruthyText(args.output)
    /\ ~CanOpen(args.output[1], args.cwd, fs)
    /\ pc' = "crashed"
    /\ UNCHANGED <<args, fs, tool_vars, file_summary, now_year, output_file>>
    /\ UNCHANGED extract_vars
    /\ UNCHANGED pool_vars

\* main calls save_results
Save ==
    /\ pc = "save"
    /\ TruthyText(args.output)
    /\ CanOpen(args.output[1], args.cwd, fs)
    /\ output_file' = Some(save_results(file_summary, args.format))
    /\ pc' = "done"
    /\ UNCHANGED <<args, fs, tool_vars, file_summary, now_year>>
    /\ UNCHANGED extract_vars
    /\ UNCHANGED pool_vars

----------------------------------------------------------------------------
Next ==
    \/ Discover
    \/ ExtractOpen
    \/ ExtractLink
    \/ ExtractRaise
    \/ ExtractReturn
    \/ ExcludeRaise
    \/ Exclude
    \/ Cap
    \/ DryRun
    \/ CheckLinks
    \/ Submit
    \/ ProbeStart
    \/ ProbeReturn
    \/ Collect
    \/ CheckReturn
    \/ Group
    \/ SaveSkip
    \/ SaveRaise
    \/ Save

Spec == Init /\ [][Next]_vars

\* the scheduling check_links relies on: the main thread goes on submitting,
\* collecting and returning, an idle worker thread takes the next work item,
\* and a HEAD request returns or raises within its timeout
PoolFairness ==
    /\ WF_vars(Submit)
    /\ WF_vars(ProbeStart)
    /\ WF_vars(ProbeReturn)
    /\ WF_vars(Collect)
    /\ WF_vars(CheckReturn)

FairSpec == Init /\ [][Next]_vars /\ PoolFairness

----------------------------------------------------------------------------
(***************************************************************************)
(* The batch utilities: resize.py, scripts/crop_transparent.py,            *)
(* scripts/organize.py, scripts/rename.py, scripts/remove_bg.py,           *)
(* scripts/apply_mask.py and scripts/txtconvert.py.  Each of them expands  *)
(* its arguments to a list of inputs and then handles the inputs one by    *)
(* one; an action is one iteration of that loop.                           *)
(*                                                                         *)
(* A file or directory name is a text (a sequence of tokens), a path is    *)
(* the sequence of its names below the working directory: "in/a.png" is    *)
(* <<<<"in">>, <<"a", ".", "png">>>>.                                      *)
(***************************************************************************)

\* pathlib: name, parent, suffix and stem
PathName(path) == path[Len(path)]
PathParent(path) == SubSeq(path, 1, Len(path) - 1)
\* the place of the last "." of a name that is not its first character, or 0
LastDot(name) ==
    IF \E i \in 2..Len(name) : name[i] = "."
    THEN CHOOSE i \in 2..Len(name) :
           name[i] = "." /\ \A k \in (i + 1)..Len(name) : name[k] # "."
    ELSE 0
PathSuffix(name) == IF LastDot(name) = 0 THEN <<>> ELSE Suffix(name, LastDot(name))
PathStem(name) == IF LastDot(name) = 0 THEN name ELSE Prefix(name, LastDot(name) - 1)
\* path.resolve(): the path a symbolic link points to, the path itself for
\* anything else (no link of the model points to a link)
Resolve(path) ==
    IF path \in DOMAIN nodes /\ nodes[path].link # None
    THEN nodes[path].link[1]
    ELSE path
\* path.exists(), which follows a symbolic link: False for a link whose
\* target is missing
Exists(path) == Resolve(path) \in files \cup dirs
\* what mkdir(parents=True, exist_ok=True) leaves as directories
Mkdir(dir) == dirs \cup {SubSeq(dir, 1, n) : n \in 1..Len(dir)}

\* the path of a file dir/stem.ext, and of forge/yyyy-mm-dd
File(dir, stem, ext) == <<<<dir>>, <<stem, ".", ext>>>>
DateDir(y, m, d) == <<<<"forge">>, <<y, "-", m, "-", d>>>>
\* --output-dir and --mask-dir
OUTDIR == <<<<"out">>>>
MASKS  == <<<<"masks">>>>

\* the working directory before the run: without any output of an earlier
\* run, and with some
CleanTree ==
    [files |-> {File("in", "a", "png"), File("in", "a", "jpg"),
                File("in", "e", "png"), File("in", "notes", "txt"),
                MASKS \o <<<<"a", "_mask", ".", "png">>>>,
                File("data", "a", "csv"), File("data", "b", "csv"),
                File("data", "a", "txt"), File("data", "b", "json"),
                DateDir("2024", "02", "02"),
                DateDir("2024", "01", "05") \o <<<<"img", ".", "png">>>>,
                File("ren", "a", "txt"), <<<<"ren">>, <<"a", "a", ".", "txt">>>>,
                File("ren", "l", "txt"), File("ren", "t", "txt")},
     dirs  |-> {<<<<"in">>>>, MASKS, <<<<"data">>>>, <<<<"forge">>>>, <<<<"ren">>>>,
                DateDir("2024", "01", "05"), DateDir("2099", "01", "01"),
                DateDir("2024", "13", "01")}]
UsedTree ==
    [files |-> CleanTree.files
               \cup {File("out", "a", "png"), File("in", "b", "png"),
                     OUTDIR \o <<<<"masks">>, <<"a", "_mask", ".", "png">>>>},
     dirs  |-> CleanTree.dirs
               \cup {OUTDIR, OUTDIR \o <<<<"masks">>>>,
                     <<<<"forge">>, <<"2024">>>>,
                     <<<<"forge">>, <<"2024">>, <<"01">>>>,
                     <<<<"forge">>, <<"2024">>, <<"01">>,
                       <<"2024", "-", "01", "-", "05">>>>}]

\* the symbolic links of the trees: ren/l.txt points to ren/t.txt
Symlinks == [p \in {File("ren", "l", "txt")} |-> File("ren", "t", "txt")]
\* what lies at each path of the files of a tree; the data of a regular file
\* is named after the path it has before the run
NodesOf(tree) ==
    [p \in tree.files |->
       IF p \in DOMAIN Symlinks
       THEN [link |-> Some(Symlinks[p]), data |-> None]
       ELSE [link |-> None, data |-> Some(p)]]

\* the --replace arguments of the runs of rename.py, with the directory of
\* the files they are applied to: a plain replacement, one whose result
\* holds the replaced text again (a -> aa, aa -> aaaa), one that gives two
\* files the same new name, and two that give a link the name of its target
\* and a target the name of its link
Replaces ==
    {[dir |-> "in",  old |-> "a", new |-> <<"b">>],
     [dir |-> "ren", old |-> "a", new |-> <<"a", "a">>],
     [dir |-> "ren", old |-> "a", new |-> <<>>],
     [dir |-> "ren", old |-> "l", new |-> <<"t">>],
     [dir |-> "ren", old |-> "t", new |-> <<"l">>]}

\* the height in pixels of the image in a file (a file that holds no image
\* has none)
HeightOf(path) ==
    CASE PathName(path) = <<"a", ".", "jpg">> -> Some(50)
      [] PathSuffix(PathName(path)) = <<".", "png">> -> Some(200)
      [] OTHER -> None

\* what the glob patterns of the command line match in the trees of the
\* model; rename.py is given the pattern dir/*old* and keeps the matches that
\* are files
Matches(t, replace, tree) ==
    CASE t = "resize" ->
           {File("in", "a", "png"), File("in", "a", "jpg"), File("in", "notes", "txt")}
      [] t \in {"crop_transparent", "remove_bg", "apply_mask"} ->
           {File("in", "a", "png"), File("in", "a", "jpg"), File("in", "e", "png")}
      [] t = "rename" ->
           {p \in tree.files :
              /\ PathParent(p) = <<<<replace[1].dir>>>>
              /\ \E i \in 1..Len(PathStem(PathName(p))) :
                   PathStem(PathName(p))[i] = replace[1].old
              /\ p \in DOMAIN Symlinks => Symlinks[p] \in tree.files}
      [] t = "txtconvert" ->
           {File("data", "a", "csv"), File("data", "b", "csv"), File("data", "a", "txt")}
      [] t = "organize" ->
           {DateDir("2024", "01", "05"), DateDir("2099", "01", "01"),
            DateDir("2024", "13", "01"), DateDir("2024", "02", "02")}

\* the utilities and the options of the model; an option a utility does not
\* have is left at its default
ToolRuns ==
    {r \in [tool : {"resize", "crop_transparent", "remove_bg", "apply_mask",
                    "rename", "txtconvert", "organize"},
            dry_run : BOOLEAN, overwrite : BOOLEAN,
            save_mask : BOOLEAN, resize_smaller : {"true", "false", "skip"},
            replace : {None} \cup {Some(r) : r \in Replaces}] :
       /\ r.replace # None <=> r.tool = "rename"
       /\ r.dry_run => r.tool # "txtconvert"
       /\ r.overwrite => r.tool \notin {"rename", "organize"}
       /\ r.save_mask => r.tool = "remove_bg"
       /\ r.resize_smaller # "false" => r.tool = "resize"}

InitTools ==
    /\ \E r \in ToolRuns : tool = r.tool /\ opts = r
    /\ \E t \in {CleanTree, UsedTree} :
         /\ files = t.files /\ dirs = t.dirs /\ start = t
         /\ nodes = IF tool = "rename" THEN NodesOf(t) ELSE [p \in {} |-> None]
         /\ inputs \in Orders(Matches(tool, opts.replace, t))
    /\ idx = 1
    /\ stats = [r \in {"done", "skipped", "dry-run", "error"} |-> 0]
    /\ log = <<>>
    /\ pc = "off"
    /\ args = None
    /\ fs = {}
    /\ html_files = <<>>
    /\ file_idx = 0
    /\ cur_links = None
    /\ absolute_links = {}
    /\ relative_links = {}
    /\ link_origins = <<>>
    /\ to_submit = {}
    /\ work_queue = <<>>
    /\ num_threads = 0
    /\ running = {}
    /\ futures = {}
    /\ results = <<>>
    /\ file_summary = <<>>
    /\ now_year = None
    /\ output_file = None
    /\ idle_semaphore = 0
    /\ probes = <<>>

\* the end of an iteration: the directories it made, the files it wrote (in
\* the order it wrote them) and its result; counted tells whether the utility
\* adds the result to its stats
Iteration(output, result, made, written, counted) ==
    /\ dirs' = made
    /\ files' = files \cup {written[k] : k \in 1..Len(written)}
    /\ log' = Append(log,
                [input |-> inputs[idx], output |-> output,
                 existed |-> Exists(output), result |-> result,
                 writes |-> [k \in 1..Len(written) |->
                               [path |-> written[k],
                                existed |-> Exists(written[k])]]])
    /\ stats' = IF counted THEN [stats EXCEPT ![result] = @ + 1] ELSE stats
    /\ idx' = idx + 1
    /\ UNCHANGED <<tool, opts, inputs, start, nodes>>
    /\ UNCHANGED link_vars

----------------------------------------------------------------------------
(* resize.py *)

\* out_dir / (prefix + path.stem + suffix + path.suffix), with the default
\* empty --prefix and --suffix
ResizeTarget(path, out_dir, prefix, suffix) ==
    out_dir \o <<prefix \o PathStem(PathName(path)) \o suffix
                 \o PathSuffix(PathName(path))>>

\* the body of `for path in tqdm(all_files)` of process_files, with its
\* supported_extensions
ResizeBody(path, new_path, target_height) ==
    IF   \/ LowerAll(PathSuffix(PathName(path)))
              \notin {<<".", "png">>, <<".", "jpg">>, <<".", "jpeg">>}
         \/ HeightOf(path) = None
         \/ HeightOf(path)[1] <= target_height /\ opts.resize_smaller = "skip"
    THEN Iteration(new_path, "skipped", dirs, <<>>, FALSE)
    ELSE IF Exists(new_path) /\ ~opts.overwrite
    THEN Iteration(new_path, "skipped", Mkdir(PathParent(new_path)), <<>>, FALSE)
    ELSE IF opts.dry_run
    THEN Iteration(new_path, "dry-run", Mkdir(PathParent(new_path)), <<>>, FALSE)
    ELSE Iteration(new_path, "done", Mkdir(PathParent(new_path)), <<new_path>>, FALSE)

\* one iteration of process_files for --height 100 --output-dir out
Resize ==
    /\ tool = "resize"
    /\ idx <= Len(inputs)
    /\ ResizeBody(inputs[idx], ResizeTarget(inputs[idx], OUTDIR, <<>>, <<>>), 100)

----------------------------------------------------------------------------
(* scripts/crop_transparent.py *)

\* crop_image; the image of e.png is fully transparent (getbbox() is None)
crop_image(input_path, output_path) ==
    IF PathName(input_path) = <<"e", ".", "png">>
    THEN Iteration(output_path, "skipped", dirs, <<>>, TRUE)
    ELSE IF opts.dry_run
    THEN Iteration(output_path, "dry-run", dirs, <<>>, TRUE)
    ELSE IF Exists(output_path) /\ ~opts.overwrite
    THEN Iteration(output_path, "skipped", Mkdir(PathParent(output_path)), <<>>, TRUE)
    ELSE Iteration(output_path, "done", Mkdir(PathParent(output_path)),
                   <<output_path>>, TRUE)

\* the body of `for input_file in tqdm(input_files)` of main: for a pattern
\* "in/*" the path relative to the directory of the match is the file's name
CropTransparent ==
    /\ tool = "crop_transparent"
    /\ idx <= Len(inputs)
    /\ crop_image(inputs[idx], OUTDIR \o <<PathName(inputs[idx])>>)

----------------------------------------------------------------------------
(* scripts/remove_bg.py *)

\* process_image; mask_path is
\* output_path.parent / "masks" / (output_path.stem + "_mask.png")
process_image(input_path, output_path, mask_path) ==
    IF Exists(output_path) /\ ~opts.overwrite
    THEN Iteration(output_path, "skipped", dirs, <<>>, TRUE)
    ELSE IF opts.dry_run
    THEN Iteration(output_path, "dry-run", dirs, <<>>, TRUE)
    ELSE IF opts.save_mask
    THEN Iteration(output_path, "done",
                   Mkdir(PathParent(mask_path)),
                   <<output_path, mask_path>>, TRUE)
    ELSE Iteration(output_path, "done", Mkdir(PathParent(output_path)),
                   <<output_path>>, TRUE)

\* the body of the loops of main, for the single model of the default --model
RemoveBg ==
    /\ tool = "remove_bg"
    /\ idx <= Len(inputs)
    /\ process_image(inputs[idx], OUTDIR \o <<PathName(inputs[idx])>>,
                     OUTDIR \o <<<<"masks">>,
                                 PathStem(PathName(inputs[idx]))
                                 \o <<"_mask", ".", "png">>>>)

----------------------------------------------------------------------------
(* scripts/apply_mask.py *)

\* apply_mask
apply_mask(image_path, mask_path, output_path) ==
    IF output_path = image_path
    THEN Iteration(output_path, "error", dirs, <<>>, TRUE)
    ELSE IF Exists(output_path) /\ ~opts.overwrite
    THEN Iteration(output_path, "skipped", dirs, <<>>, TRUE)
    ELSE IF opts.dry_run
    THEN Iteration(output_path, "dry-run", dirs, <<>>, TRUE)
    ELSE Iteration(output_path, "done", Mkdir(PathParent(output_path)),
                   <<output_path>>, TRUE)

\* the body of `for input_file in tqdm(all_input_files)` of main, which main
\* reaches when no input is in the output directory
ApplyMask ==
    /\ tool = "apply_mask"
    /\ idx <= Len(inputs)
    /\ \A k \in 1..Len(inputs) : PathParent(inputs[k]) # OUTDIR
    /\ LET mask_file == MASKS \o <<PathStem(PathName(inputs[idx]))
                                   \o <<"_mask", ".", "png">>>>
           output_file_ == OUTDIR \o <<PathName(inputs[idx])>>
       IN  IF ~Exists(mask_file)
           THEN Iteration(output_file_, "skipped", dirs, <<>>, TRUE)
           ELSE apply_mask(inputs[idx], mask_file, output_file_)

----------------------------------------------------------------------------
(* scripts/txtconvert.py *)

\* infer_format
infer_format(path) ==
    CASE LowerAll(PathSuffix(PathName(path))) = <<".", "json">> -> Some("json")
      [] LowerAll(PathSuffix(PathName(path))) = <<".", "csv">>  -> Some("csv")
      [] OTHER -> None

\* the body of `for file_path in files` of main, for --format json without
\* --output-dir and --input-format
Txtconvert ==
    /\ tool = "txtconvert"
    /\ idx <= Len(inputs)
    /\ LET output_path == PathParent(inputs[idx])
                          \o <<PathStem(PathName(inputs[idx])) \o <<".", "json">>>>
       IN  IF infer_format(inputs[idx]) = None
           THEN Iteration(output_path, "skipped", dirs, <<>>, FALSE)
           ELSE IF Exists(output_path) /\ ~opts.overwrite
           THEN Iteration(output_path, "skipped",
                          Mkdir(PathParent(output_path)), <<>>, FALSE)
           ELSE Iteration(output_path, "done",
                          Mkdir(PathParent(output_path)), <<output_path>>, FALSE)

----------------------------------------------------------------------------
(* scripts/rename.py *)

\* name.replace(old, new), old being one token
simple_replace(name, old, new) ==
    Flatten([i \in 1..Len(name) |-> IF name[i] = old THEN new ELSE <<name[i]>>])

\* src.rename(dst): os.rename moves what lies at src (a link itself, not its
\* target) to dst and replaces what lies at dst
RenameFile(src, dst) ==
    /\ files' = (files \ {src}) \cup {dst}
    /\ nodes' = [p \in (DOMAIN nodes \ {src}) \cup {dst} |->
                   IF p = dst THEN nodes[src] ELSE nodes[p]]
    /\ log' = Append(log,
                [input |-> src, output |-> dst, existed |-> Exists(dst),
                 result |-> "done",
                 writes |-> <<[path |-> dst, existed |-> Exists(dst)]>>])
    /\ idx' = idx + 1
    /\ UNCHANGED <<tool, opts, inputs, start, dirs, stats>>
    /\ UNCHANGED link_vars

\* the body of `for src, dst in rename_pairs` of main, for --replace old new:
\* dst is file.with_name(stem + file.suffix); a pair whose two paths resolve
\* to the same file is skipped when the names are equal and renamed when
\* they differ, any other pair is skipped when dst exists
Rename ==
    /\ tool = "rename"
    /\ idx <= Len(inputs)
    /\ LET src == inputs[idx]
           dst == PathParent(src)
                  \o <<simple_replace(PathStem(PathName(src)),
                                      opts.replace[1].old, opts.replace[1].new)
                       \o PathSuffix(PathName(src))>>
       IN  IF \/ Resolve(src) = Resolve(dst) /\ PathName(src) = PathName(dst)
              \/ Resolve(src) # Resolve(dst) /\ Exists(dst)
           THEN Iteration(dst, "skipped", dirs, <<>>, FALSE)
           ELSE IF opts.dry_run
           THEN Iteration(dst, "dry-run", dirs, <<>>, FALSE)
           ELSE RenameFile(src, dst)

----------------------------------------------------------------------------
(* scripts/organize.py *)

\* the number a token of digits writes
NumberOf(tok) ==
    LET d == DigitsOf(tok)
    IN  IF Len(d) = 4 THEN 1000 * d[1] + 100 * d[2] + 10 * d[3] + d[4]
        ELSE 10 * d[1] + d[2]

\* DATE_DIR_RE.match(name): dddd-dd-dd
is_valid_date_directory(name) ==
    /\ Len(name) = 5
    /\ name[2] = "-" /\ name[4] = "-"
    /\ Len(DigitsOf(name[1])) = 4
    /\ Len(DigitsOf(name[3])) = 2
    /\ Len(DigitsOf(name[5])) = 2

\* strptime(name, "%Y-%m-%d").date() < today, False when strptime raises
\* (the days of the model are at most 28)
is_past_date(name, today) ==
    /\ NumberOf(name[3]) \in 1..12
    /\ NumberOf(name[5]) \in 1..28
    /\ \/ NumberOf(name[1]) < today[1]
       \/ NumberOf(name[1]) = today[1] /\ NumberOf(name[3]) < today[2]
       \/ /\ NumberOf(name[1]) = today[1] /\ NumberOf(name[3]) = today[2]
          /\ NumberOf(name[5]) < today[3]

\* a path below p, moved below dest
Moved(path, p, dest) ==
    IF Len(path) >= Len(p) /\ SubSeq(path, 1, Len(p)) = p
    THEN dest \o SubSeq(path, Len(p) + 1, Len(path))
    ELSE path

\* target_dir.mkdir(parents=True, exist_ok=True); shutil.move(p, dest)
MoveDirectory(p, dest) ==
    /\ dirs' = {Moved(d, p, dest) : d \in Mkdir(PathParent(dest))}
    /\ files' = {Moved(f, p, dest) : f \in files}
    /\ log' = Append(log,
                [input |-> p, output |-> dest, existed |-> Exists(dest),
                 result |-> "done",
                 writes |-> <<[path |-> dest, existed |-> Exists(dest)]>>])
    /\ idx' = idx + 1
    /\ UNCHANGED <<tool, opts, inputs, start, stats, nodes>>
    /\ UNCHANGED link_vars

\* the body of `for path in glob.glob(...)` of organize_directories, run on
\* 2 November 2026
Organize ==
    /\ tool = "organize"
    /\ idx <= Len(inputs)
    /\ LET p == inputs[idx]
           dest == PathParent(p) \o <<<<PathName(p)[1]>>, <<PathName(p)[3]>>, PathName(p)>>
       IN  IF \/ p \notin dirs
              \/ ~is_valid_date_directory(PathName(p))
              \/ ~is_past_date(PathName(p), <<2026, 11, 2>>)
           THEN Iteration(p, "skipped", dirs, <<>>, FALSE)
           ELSE IF Exists(dest)
           THEN Iteration(dest, "skipped", dirs, <<>>, FALSE)
           ELSE IF opts.dry_run
           THEN Iteration(dest, "dry-run", dirs, <<>>, FALSE)
           ELSE MoveDirectory(p, dest)

----------------------------------------------------------------------------
NextTools ==
    \/ Resize
    \/ CropTransparent
    \/ RemoveBg
    \/ ApplyMask
    \/ Txtconvert
    \/ Rename
    \/ Organize

SpecTools == InitTools /\ [][NextTools]_vars
----------------------------------------------------------------------------
(* Properties of the checking stage *)

\* the URLs for which check_link has been called
Probed == DOMAIN probes
\* check_links has returned (not skipped by --dry-run)
Checked == pc \in {"group", "done"} /\ ~args.dry_run
\* the outcome of the (last) request made for a probed URL
OutcomeOf(url) == probes[url][Len(probes[url])]

\* C1: at every instant the number of check_link calls that have started and
\* not returned is at most max_workers
C1_InFlightAtMostLimit == Cardinality(running) <= args.max_workers

\* the limit is reached while more work waits
C1_Witness ==
    /\ Cardinality(running) = args.max_workers
    /\ work_queue # <<>>

\* C2: no URL is requested twice, and when check_links has returned every URL
\* of the working set was requested exactly once and results has exactly one
\* entry for each of them and for nothing else
C2_ProbedExactlyOnce ==
    /\ \A url \in Probed : Len(probes[url]) = 1
    /\ Probed \subseteq absolute_links
    /\ Checked =>
         /\ Probed = absolute_links
         /\ Keys(results) = absolute_links
         /\ Len(results) = Cardinality(absolute_links)

\* a URL two files link to has been checked together with another URL
C2_Witness ==
    /\ Checked
    /\ fs = Site1
    /\ Len(html_files) = 2
    /\ EX2019 \in Keys(results)
    /\ Len(results) >= 2

\* C3: a result is ok iff its request answered with a code in [200, 400); a
\* code outside the range is kept in the result; a request that raised leaves
\* no code
C3_ReachableIffCodeInRange ==
    \A i \in 1..Len(results) :
        LET r == results[i]
            o == OutcomeOf(r.key)
        IN  /\ r.ok <=> (o.kind = "response" /\ o.status_code \in 200..399)
            /\ o.kind = "response" => r.status_code = Some(o.status_code)
            /\ o.kind = "exception" => r.status_code = None

\* results hold a success, a failure with its code 400 and a failure without code
C3_Witness ==
    /\ \E i \in 1..Len(results) : results[i].ok
    /\ \E i \in 1..Len(results) :
          ~results[i].ok /\ results[i].status_code = Some(400)
    /\ \E i \in 1..Len(results) : results[i].status_code = None

\* C4: whatever requests raise, the pool is never stuck, check_links returns
\* with an entry for every URL, the entry of a URL whose request raised is
\* {ok: False, status_code: None}, and the entry of any other URL is the one
\* its own answer gives
C4_FailureIsolated ==
    /\ pc = "pool" =>
         ENABLED (Submit \/ ProbeStart \/ ProbeReturn \/ Collect \/ CheckReturn)
    /\ Checked =>
         \A url \in absolute_links :
            /\ url \in Keys(results)
            /\ LET r == Get(results, url)
                   o == OutcomeOf(url)
               IN  IF o.kind = "exception"
                   THEN ~r.ok /\ r.status_code = None
                   ELSE <<url, r.status_code, r.ok>> = check_link(url, o)

\* check_links has returned after one request raised and another was answered
C4_Witness ==
    /\ Checked
    /\ Len(results) >= 2
    /\ \E url \in absolute_links : OutcomeOf(url).kind = "exception"
    /\ \E url \in absolute_links : OutcomeOf(url).kind = "response"

----------------------------------------------------------------------------
(* Properties of the summary *)

\* the places of the ok and fail lists of the summary
OkFailSlots ==
    UNION {{<<i, "ok", j>> : j \in 1..Len(file_summary[i].ok)}
           \cup {<<i, "fail", j>> : j \in 1..Len(file_summary[i].fail)} :
           i \in 1..Len(file_summary)}
SlotUrl(s) ==
    IF s[2] = "ok" THEN file_summary[s[1]].ok[s[3]] ELSE file_summary[s[1]].fail[s[3]]

\* C5: after aggregation every probed URL fills exactly one place of the ok
\* and fail lists, in the summary of its origin file, under ok iff it is
\* reachable; so ok and fail of a file together are as long as the number of
\* probed URLs attributed to the file
C5_OnceInOkOrFail ==
    pc = "done" =>
      /\ \A url \in Probed :
           /\ Cardinality({s \in OkFailSlots : SlotUrl(s) = url}) = 1
           /\ \A s \in OkFailSlots : SlotUrl(s) = url =>
                /\ file_summary[s[1]].key = OriginOf(link_origins, url)
                /\ (s[2] = "ok") <=> Get(results, url).ok
      /\ \A s \in OkFailSlots : SlotUrl(s) \in Probed
      /\ \A i \in 1..Len(file_summary) :
           Len(file_summary[i].ok) + Len(file_summary[i].fail) =
             Cardinality({url \in Probed :
                            OriginOf(link_origins, url) = file_summary[i].key})

\* two files have a summary, with a stale link and a failed link among them
C5_Witness ==
    /\ pc = "done"
    /\ Len(file_summary) = 2
    /\ \E i \in 1..Len(file_summary) : file_summary[i].old # <<>>
    /\ \E i \in 1..Len(file_summary) : file_summary[i].fail # <<>>
----------------------------------------------------------------------------
(* Properties of extraction and of the working set *)

\* the URLs listed anywhere in the summary
SummaryUrls ==
    UNION {{file_summary[i].ok[j] : j \in 1..Len(file_summary[i].ok)}
           \cup {file_summary[i].fail[j] : j \in 1..Len(file_summary[i].fail)}
           \cup {file_summary[i].old[j] : j \in 1..Len(file_summary[i].old)} :
           i \in 1..Len(file_summary)}
\* the files of the tree that find_html_files reports
HtmlOf(tree) ==
    {f \in tree : /\ IsHtmlName(f.name)
                  /\ FilePath(f, args.directory)
                       \in find_html_files(args.directory, args.cwd, tree)}
\* extract_links has returned
Extracted == pc \notin {"discover", "extract"}
\* the scheme urlparse finds in each href of the scanned trees
AllLinks == UNION {f.links : f \in UNION Sites}
SchemeTable == [link \in AllLinks |-> urlparse(link).scheme]
SchemeOf(link) == SchemeTable[link]

\* C6: a link with a scheme other than http/https, and a scheme-less link when
\* no base URL is given, is never in the absolute set, never has an origin, is
\* never probed and never in a summary, and ends in the relative set; while
\* extract_links runs and when it returns, every URL with an origin is an
\* http/https link of its origin file taken as it is, or a scheme-less link of
\* that file resolved against a given base URL
C6_OnlySchemelessResolved ==
    /\ \A f \in HtmlOf(fs) : \A link \in f.links :
         (\/ SchemeOf(link) \notin {<<>>, <<"http">>, <<"https">>}
          \/ (SchemeOf(link) = <<>> /\ args.base_url = None))
         => /\ link \notin absolute_links
            /\ link \notin Keys(link_origins)
            /\ link \notin Probed
            /\ link \notin SummaryUrls
            /\ Extracted => link \in relative_links
    /\ pc \in {"extract", "exclude"} => \A i \in 1..Len(link_origins) :
         LET url   == link_origins[i].key
             file  == link_origins[i].file
         IN  \E link \in LinksOf(file) :
                \/ SchemeOf(link) \in {<<"http">>, <<"https">>} /\ url = link
                \/ /\ SchemeOf(link) = <<>>
                   /\ args.base_url # None
                   /\ url = urljoin(RelBase(file, args.base_url, args.cwd), link)

\* with a base URL, the mailto link of a file is set aside while the file's
\* scheme-less link is resolved and checked
C6_Witness ==
    /\ pc = "done"
    /\ args.base_url # None
    /\ MAILTO \in relative_links
    /\ ABOUT \notin relative_links
    /\ Cardinality(Probed) = 3

\* C7 (as claimed): when --exclude is given, no link its pattern matches
\* is left in the working set, probed or listed in the summary, and the links
\* it does not match stay in the working set
C7_ExcludedDropped ==
    args.exclude # None =>
      /\ pc \notin {"discover", "extract", "exclude"} =>
           \A url \in absolute_links : ~Search(args.exclude[1], url)
      /\ \A url \in Probed \cup SummaryUrls : ~Search(args.exclude[1], url)
      /\ pc = "cap" =>
           \A url \in Keys(link_origins) :
              ~Search(args.exclude[1], url) => url \in absolute_links

\* C8 (as claimed): when --max n is given, n >= 0, the working set has at
\* most n links, at most n links are probed and at most n links are listed in
\* the ok and fail lists
C8_AtMostMax ==
    args.max # None =>
      /\ pc \notin {"discover", "extract", "exclude", "cap"} =>
           Cardinality(absolute_links) <= args.max[1]
      /\ Cardinality(Probed) <= args.max[1]
      /\ Cardinality(OkFailSlots) <= args.max[1]

\* C9: with --dry-run no link is ever submitted, queued or probed, and the
\* summary lists no link under ok or fail
C9_DryRunProbesNothing ==
    args.dry_run =>
      /\ to_submit = {} /\ work_queue = <<>> /\ running = {} /\ futures = {}
      /\ Probed = {}
      /\ results = <<>>
      /\ OkFailSlots = {}

\* a dry run has ended with links discovered
C9_Witness ==
    /\ pc = "done"
    /\ args.dry_run
    /\ Cardinality(absolute_links) >= 2
    /\ relative_links # {}

\* the path of a file relative to the root of the scanned tree
RootRelPath(f) == path_join(f.dir, f.name)

\* C10 (as claimed): with base URL B, a scheme-less href H of a file whose
\* path relative to the scan root is P is recorded as join(join(B, P), H)
C10_ResolvedFromScanRoot ==
    (Extracted /\ args.base_url # None) =>
      \A f \in HtmlOf(fs) : \A link \in f.links :
         SchemeOf(link) = <<>> =>
           LET url == urljoin(urljoin(args.base_url[1], RootRelPath(f)), link)
           IN  /\ url \in Keys(link_origins)
               /\ \A g \in HtmlOf(fs) :
                    Get(link_origins, url).file = FilePath(g, args.directory)
                    => link \in g.links

----------------------------------------------------------------------------
(* Properties of the old tag *)

\* the elements of a list
Range(list) == {list[j] : j \in 1..Len(list)}
\* group_links_by_file has run
Grouped == now_year # None

\* C11: after aggregation a probed URL is in the old list of a file iff the
\* file is its origin file and the URL passes the year test, whether it is
\* listed under ok or under fail; and every URL of a file's old list is in the
\* ok list or in the fail list of the same file
C11_OldByYearTestAlone ==
    Grouped =>
      /\ \A url \in Keys(results) :
           /\ \A i \in 1..Len(file_summary) :
                url \in Range(file_summary[i].old)
                <=> /\ file_summary[i].key = OriginOf(link_origins, url)
                    /\ IsOld(url, now_year[1], years_back_default)
           /\ OriginOf(link_origins, url) \in Keys(file_summary)
      /\ \A i \in 1..Len(file_summary) :
           Range(file_summary[i].old)
             \subseteq Range(file_summary[i].ok) \cup Range(file_summary[i].fail)

\* a file's summary lists a failed link under old and a reachable link that
\* is not old
C11_Witness ==
    /\ Grouped
    /\ \E i \in 1..Len(file_summary) :
         /\ Range(file_summary[i].old) \cap Range(file_summary[i].fail) # {}
         /\ Range(file_summary[i].ok) \ Range(file_summary[i].old) # {}

\* the numbers written by four consecutive digits anywhere in a token of the
\* model
DigitQuads(tok) ==
    CASE tok = "2019"        -> {2019}
      [] tok = "report_2019" -> {2019}
      [] OTHER               -> {}

\* C12 (as claimed): a probed URL is tagged old iff four consecutive digits
\* somewhere in its text, whatever precedes and follows them, read as a year
\* y, satisfy current_year - 5 <= y < current_year
C12_OldIffYearSubstring ==
    Grouped =>
      \A url \in Keys(results) :
         (\E i \in 1..Len(file_summary) : url \in Range(file_summary[i].old))
         <=> \E k \in 1..Len(url) : \E y \in DigitQuads(url[k]) :
                now_year[1] - years_back_default <= y /\ y < now_year[1]

\* the end-to-end scenario: one file with the links EX2019 and RELATIVE, no
\* base URL, no --exclude and no --max, the probe answered with 200, and the
\* summary built
Scenario2019 ==
    /\ Grouped
    /\ fs = Site2
    /\ Len(html_files) = 1
    /\ args.base_url = None /\ args.exclude = None /\ args.max = None
    /\ ~args.dry_run
    /\ OutcomeOf(EX2019) = [kind |-> "response", status_code |-> 200]

\* what the scenario yields when EX2019 is old, and when it is not
Summary2019(old) ==
    /\ absolute_links = {EX2019}
    /\ relative_links = {RELATIVE}
    /\ file_summary = <<[key |-> html_files[1], ok |-> <<EX2019>>, fail |-> <<>>,
                         old |-> old]>>

\* C13 (as claimed): in the scenario, for every current year >= 2020, the
\* absolute links are {EX2019}, the relative links {RELATIVE}, and the summary
\* of the file is ok = [EX2019], fail = [], old = [EX2019]
C13_OldForEveryYearFrom2020 ==
    (Scenario2019 /\ now_year[1] >= 2020) => Summary2019(<<EX2019>>)

\* C13 (amended): that is the outcome for the current years 2020 to 2024
\* (2024 - 5 = 2019 being the first year of the window of 2024);
\* from 2025 on the old list is empty, the rest being the same
C13_OldForYears2020To2024 ==
    Scenario2019 =>
      /\ now_year[1] \in 2020..2024 => Summary2019(<<EX2019>>)
      /\ now_year[1] >= 2025 => Summary2019(<<>>)

\* the scenario has run in 2024, the last year whose window holds 2019
C13_Witness ==
    /\ Scenario2019
    /\ now_year = Some(2024)
    /\ pc = "done"

----------------------------------------------------------------------------
(* Properties of the saved report *)

\* the (file, category, URL) triples of a summary, of a JSON document and of
\* the rows of a CSV file after its header
SummaryTriples(summary) ==
    UNION {UNION {{<<summary[i].key, Categories[k], url>> :
                     url \in Range(Category(summary[i], Categories[k]))} :
                  k \in 1..Len(Categories)} : i \in 1..Len(summary)}
JsonTriples(doc) ==
    UNION {UNION {{<<doc[i][1], doc[i][2][k][1], url>> :
                     url \in Range(doc[i][2][k][2])} :
                  k \in 1..Len(doc[i][2])} : i \in 1..Len(doc)}
CsvTriples(rows) == {rows[n] : n \in 2..Len(rows)}

\* the rows of a CSV file for a file and a URL
RowsFor(rows, file, url) ==
    {n \in 2..Len(rows) : rows[n][1] = file /\ rows[n][3] = url}

\* C14: the JSON and the CSV rendering of a summary hold exactly the triples
\* of the summary; the CSV file has one row per triple after its header, so a
\* link under fail and under old has two rows; and the file save_results
\* writes for --format json or csv is that rendering
C14_JsonAndCsvSameTriples ==
    /\ pc = "save" =>
         /\ JsonTriples(json_dump(file_summary)) = SummaryTriples(file_summary)
         /\ CsvTriples(csv_rows(file_summary)) = SummaryTriples(file_summary)
         /\ Len(csv_rows(file_summary))
              = 1 + Cardinality(SummaryTriples(file_summary))
         /\ \A i \in 1..Len(file_summary) :
              \A url \in Range(file_summary[i].fail) \cap Range(file_summary[i].old) :
                 Cardinality(RowsFor(csv_rows(file_summary), file_summary[i].key,
                                     url)) = 2
    /\ (output_file # None /\ args.format = "json") =>
         JsonTriples(output_file[1]) = SummaryTriples(file_summary)
    /\ (output_file # None /\ args.format = "csv") =>
         CsvTriples(output_file[1]) = SummaryTriples(file_summary)

\* a CSV report has been saved for a summary with a link under fail and old
C14_Witness ==
    /\ pc = "done"
    /\ output_file # None
    /\ args.format = "csv"
    /\ \E i \in 1..Len(file_summary) :
         Range(file_summary[i].fail) \cap Range(file_summary[i].old) # {}

\* C15 (as claimed): the summary built from the results is the one built
\* from the same results collected in any other completion order: the same
\* files in the same order, the same URLs in the same order in each list
C15_SameSummaryForEveryCompletionOrder ==
    pc = "save" =>
      \A order \in Orders(Range(results)) :
         group_links_by_file(order, link_origins, now_year[1], years_back_default)
           = file_summary

----------------------------------------------------------------------------
(* Properties of the failures *)

\* the files whose processing raises: open() or read() fails, or urlparse
\* rejects one of the links
Raising == {f \in HtmlOf(fs) : ~f.readable \/ \E link \in f.links : InvalidIPv6(link)}
\* what a file that raises nothing adds to the absolute and to the relative set
AbsoluteOf(f) ==
    {Resolved(link, FilePath(f, args.directory), args.base_url, args.cwd) :
       link \in {l \in f.links : Classify(l, args.base_url) # "relative"}}
RelativeOf(f) == {l \in f.links : Classify(l, args.base_url) = "relative"}

\* C16 (as claimed): when extract_links returns, a file whose reading or
\* parsing raised is the origin of no URL, and the absolute and the relative
\* set hold what the other files contribute and nothing else
C16_RaisingFileContributesNothing ==
    pc = "exclude" =>
      /\ \A f \in Raising : \A i \in 1..Len(link_origins) :
           link_origins[i].file # FilePath(f, args.directory)
      /\ absolute_links = UNION {AbsoluteOf(g) : g \in HtmlOf(fs) \ Raising}
      /\ relative_links = UNION {RelativeOf(g) : g \in HtmlOf(fs) \ Raising}
      /\ Keys(link_origins) = absolute_links

\* the command line holds a configuration error: an --exclude pattern that
\* does not compile, or an --output path that cannot be opened
ConfigError ==
    \/ TruthyText(args.exclude) /\ CompileRaises(args.exclude[1])
    \/ TruthyText(args.output) /\ ~CanOpen(args.output[1], args.cwd, fs)

\* C17 (as claimed): in a run with a configuration error no file is
\* discovered, no link is extracted and no probe is made: the process is at
\* its start or has stopped
C17_NoWorkBeforeConfigError ==
    ConfigError =>
      /\ pc \in {"discover", "crashed"}
      /\ html_files = <<>>
      /\ absolute_links = {} /\ relative_links = {} /\ link_origins = <<>>
      /\ Probed = {}

\* the directory argument names no directory
RootMissing == abspath(args.directory, args.cwd) # SiteRoot

\* C18 (as claimed): when the root directory does not exist the process
\* stops at the discovery stage: extraction, checking, aggregation and
\* reporting never run and the run does not complete normally
C18_MissingRootStopsAtDiscovery ==
    RootMissing => pc \in {"discover", "crashed"}

----------------------------------------------------------------------------
(* Properties of the batch utilities *)

\* C19 (as claimed): with --dry-run the utilities that have the option among
\* resize, crop_transparent, organize and rename leave the files and the
\* directories as they were before the run
C19_DryRunLeavesFilesystem ==
    (tool \in {"resize", "crop_transparent", "organize", "rename"}
     /\ opts.dry_run)
    => files = start.files /\ dirs = start.dirs

\* the iterations whose result is skipped
SkippedIterations == {k \in 1..Len(log) : log[k].result = "skipped"}

\* C20 (as claimed): without --overwrite, remove_bg, apply_mask, resize and
\* txtconvert write only to paths that did not exist just before the write,
\* the mask file included; an input whose output exists is skipped, and
\* counted as skipped by the utilities that count
C20_NoOverwriteWithoutFlag ==
    (tool \in {"remove_bg", "apply_mask", "resize", "txtconvert"}
     /\ ~opts.overwrite)
    => /\ \A k \in 1..Len(log) :
            /\ \A w \in 1..Len(log[k].writes) : ~log[k].writes[w].existed
            /\ log[k].existed => log[k].result = "skipped"
       /\ tool \in {"remove_bg", "apply_mask"} =>
            stats["skipped"] = Cardinality(SkippedIterations)

----------------------------------------------------------------------------
(* Properties of the order of the stages *)

\* extract_links has handled every discovered file
ExtractionFinished ==
    /\ pc \notin {"discover", "extract"}
    /\ file_idx > Len(html_files)
    /\ cur_links = None
\* group_links_by_file has been called
Aggregating == pc = "group" \/ Grouped

\* C21: the stages do not overlap: a probe is started only when extraction
\* has finished for every discovered file, and aggregation starts only when
\* nothing is left to submit, queued, in progress or uncollected, every
\* submitted URL has been probed to its end and its result is stored
C21_StagesNeverOverlap ==
    /\ (Probed # {} \/ running # {} \/ work_queue # <<>>) => ExtractionFinished
    /\ Aggregating =>
         /\ to_submit = {} /\ work_queue = <<>> /\ running = {} /\ futures = {}
         /\ ~args.dry_run => Probed = absolute_links
         /\ \A url \in Probed :
              /\ OutcomeOf(url).kind \in {"response", "exception"}
              /\ url \in Keys(results)

\* aggregation has run after two files were scanned and two probes were made
\* by two workers, one of which raised
C21_Witness ==
    /\ Grouped
    /\ Len(html_files) = 2
    /\ Cardinality(Probed) >= 2
    /\ num_threads = 2
    /\ \E url \in Probed : OutcomeOf(url).kind = "exception"

----------------------------------------------------------------------------
(* Termination of check_links *)

\* check_links has returned with a result for every URL it was given, each
\* of them started by a worker
Returned ==
    /\ pc = "group"
    /\ Probed = absolute_links
    /\ Keys(results) = absolute_links
    /\ Len(results) = Cardinality(absolute_links)

\* C22: under fair scheduling of the workers and with requests that return
\* or raise, a call of check_links returns, with every URL started by a
\* worker and a result for every URL, whatever the number of URLs and workers
C22_CheckLinksReturns == (pc = "pool") ~> Returned

\* check_links was given more URLs than it has workers: a work item waits
\* while the only worker is busy
C22_Witness ==
    /\ pc = "pool"
    /\ num_threads = 1 /\ args.max_workers = 1
    /\ Cardinality(running) = 1
    /\ work_queue # <<>>

----------------------------------------------------------------------------
(* Determinism of the results *)

\* the entry check_links stores for a URL whose request had the given outcome
EntryFor(url, outcome) ==
    [key |-> url, ok |-> check_link(url, outcome)[3],
     status_code |-> check_link(url, outcome)[2]]

\* C23: in every interleaving the entry of a URL in results is the one its
\* own probe outcome gives, whatever the order in which the probes were
\* started and completed, and when check_links has returned the mapping has
\* exactly the URLs it was given; every future taken from as_completed adds
\* an entry under a key that was not there, so no entry is written twice or
\* replaced
C23_ResultsIndependentOfScheduling ==
    /\ [](/\ \A i \in 1..Len(results) :
              /\ OutcomeOf(results[i].key).kind # "pending"
              /\ results[i] = EntryFor(results[i].key, OutcomeOf(results[i].key))
          /\ \A i, j \in 1..Len(results) :
              results[i].key = results[j].key => i = j
          /\ Checked => Keys(results) = absolute_links)
    /\ [][/\ results' # results =>
              /\ Len(results') = Len(results) + 1
              /\ SubSeq(results', 1, Len(results)) = results
              /\ results'[Len(results')].key \notin Keys(results)
          /\ (futures' \subseteq futures /\ futures' # futures) =>
              results' # results]_vars

\* check_links has returned the results of three probes made by two
\* workers, a success, a failure with a code and a failure without
C23_Witness ==
    /\ Checked
    /\ num_threads = 2
    /\ Len(results) = 3
    /\ \E i \in 1..3 : results[i].ok
    /\ \E i \in 1..3 : results[i].status_code = Some(400)
    /\ \E i \in 1..3 : results[i].status_code = None

----------------------------------------------------------------------------
(* Origin tracking *)

\* the files of the scanned trees whose processing raises, and what each
\* file of the trees adds to the absolute set under each invocation and
\* base URL
RaisingFiles ==
    {f \in UNION Sites : ~f.readable \/ \E link \in f.links : InvalidIPv6(link)}
AbsoluteTable ==
    [f \in UNION Sites |->
       [i \in Invocations |->
          [b \in {None, Some(BASE)} |->
             {Resolved(link, FilePath(f, i.directory), b, i.cwd) :
                link \in {l \in f.links : Classify(l, b) # "relative"}}]]]
AbsoluteAt(f) ==
    AbsoluteTable[f][[cwd |-> args.cwd, directory |-> args.directory]][args.base_url]
\* the places, in processing order, of the files from which extract_links
\* took the URL: the files that raise nothing and hold a link resolving to it
SourcesOf(url) ==
    {k \in 1..Len(html_files) :
       /\ FileAt(html_files[k]) \notin RaisingFiles
       /\ url \in AbsoluteAt(FileAt(html_files[k]))}
\* the last of a set of places
LastOf(places) == CHOOSE k \in places : \A m \in places : m <= k
LastSourceOf(url) == html_files[LastOf(SourcesOf(url))]
\* the URL is a link of no file that raises
CleanlyExtracted(url) ==
    \A f \in fs \cap RaisingFiles : url \notin AbsoluteAt(f)
\* the places of the file summary whose lists hold the URL
ListedIn(url) ==
    {i \in 1..Len(file_summary) :
       url \in Range(file_summary[i].ok) \cup Range(file_summary[i].fail)
                \cup Range(file_summary[i].old)}

\* C24: when extract_links returns, the origin map gives every URL the
\* last, in processing order, of the files it was extracted from (the map
\* does not change afterwards); and when the results have been grouped, a
\* URL that was checked is listed in the summary of that file and in no
\* other summary
C24_OriginIsLastSeen ==
    /\ pc = "exclude" =>
         \A url \in Keys(link_origins) :
            (CleanlyExtracted(url) /\ SourcesOf(url) # {}) =>
               OriginOf(link_origins, url) = LastSourceOf(url)
    /\ pc = "save" =>
         \A url \in Keys(results) :
            (CleanlyExtracted(url) /\ SourcesOf(url) # {}) =>
               /\ OriginOf(link_origins, url) = LastSourceOf(url)
               /\ Cardinality(ListedIn(url)) = 1
               /\ \A i \in ListedIn(url) : file_summary[i].key = LastSourceOf(url)

\* a checked URL that two files link to is listed for the second of them,
\* and the first has a summary of its own
C24_Witness ==
    /\ pc = "save"
    /\ \E url \in Keys(results) :
         /\ Cardinality(SourcesOf(url)) = 2
         /\ ListedIn(url) # {}
         /\ \E i \in 1..Len(file_summary) :
              /\ i \notin ListedIn(url)
              /\ \E k \in SourcesOf(url) : html_files[k] = file_summary[i].key

\* C25: in main's flow the absolute set is always within the keys of the
\* origin map, so every URL that is queued, probed or stored in results has
\* an origin, and the placeholder UNKNOWN is never a key of the file summary
C25_NoUnknownOrigin ==
    /\ absolute_links \subseteq Keys(link_origins)
    /\ to_submit \cup Range(work_queue) \cup running \subseteq Keys(link_origins)
    /\ Probed \cup Keys(results) \subseteq Keys(link_origins)
    /\ UNKNOWN \notin Keys(file_summary)
    /\ \A i \in 1..Len(file_summary) : file_summary[i].key \in Range(html_files)

\* the summary is built after --exclude or --max took a URL that has an
\* origin out of the absolute set, and the URLs left were probed
C25_Witness ==
    /\ pc = "done"
    /\ Probed # {}
    /\ Keys(link_origins) \ absolute_links # {}
    /\ file_summary # <<>>

----------------------------------------------------------------------------
(* Properties of rename.py *)

\* the data of the regular files of a table of nodes
DataOf(table) ==
    {table[p].data : p \in {q \in DOMAIN table : table[q].link = None}}
\* the paths of a table of nodes that hold the given data
Holding(table, data) ==
    {q \in DOMAIN table : table[q].link = None /\ table[q].data = data}

\* C26 (as claimed): in a run of rename.py without --dry-run the number of
\* files is at every moment the number before the run, and the contents of
\* the files are those before the run, each as often as before
C26_RenameDestroysNoFile ==
    (tool = "rename" /\ ~opts.dry_run)
    => /\ Cardinality(files) = Cardinality(start.files)
       /\ DataOf(nodes) = DataOf(NodesOf(start))
       /\ \A d \in DataOf(nodes) : Cardinality(Holding(nodes, d)) = 1
====
